---- MODULE Spec2Model ----
(***************************************************************************)
(* Model of gaws.SendAWSRequest (src/gaws.go): sign once, then a           *)
(* send / classify / backoff loop driven by the package variable MaxTries. *)
(*                                                                         *)
(* Bodies are sequences of tokens, so that json.Unmarshal is a parse that  *)
(* can fail and ioutil.ReadAll can stop at a proper prefix.  Every state   *)
(* variable but MaxTries is a function over the calls in progress: each    *)
(* call has its own locals (try, resp, body, lastBody) and its own request.*)
(***************************************************************************)
EXTENDS Integers, Sequences, FiniteSets, TLC

\* Largest value of the package variable MaxTries that is explored.
MaxMaxTries == 5

\* var MaxTries int = 5
DefaultMaxTries == 5

\* Largest value of MaxTries explored with two calls in progress.
MaxConcTries == 3

\* Largest value of MaxTries explored for a call made by a Kinesis operation.
MaxKinesisTries == 3

VARIABLES
    MaxTries,   \* the package variable gaws.MaxTries
    endpoint,   \* the responses the endpoint of the calls may answer with
    credentials,\* whether the environment holds signing credentials
    pc,         \* pc[c]: where call c stands in SendAWSRequest
    req,        \* req[c]: the *http.Request of call c (headers, body reader)
    try,        \* try[c]: the loop variable
    resp,       \* resp[c]: the response client.Do returned last (status, body)
    err,        \* err[c]: the error client.Do returned last
    lastBody,   \* lastBody[c]: the local lastBody
    result,     \* result[c]: what the call returned to its caller
    signed,     \* signed[c]: how many times awsauth.Sign ran in call c
    sent,       \* sent[c]: the request as handed to the transport, per attempt
    received,   \* received[c]: the responses obtained and read in full
    waits,      \* waits[c]: the backoff sleeps of call c, in milliseconds
    op,         \* op[c]: the function that called SendAWSRequest for call c
    out         \* out[c]: what that function returned to its own caller

vars == <<MaxTries, endpoint, credentials, pc, req, try, resp, err, lastBody, result, signed, sent,
          received, waits, op, out>>

----------------------------------------------------------------------------
(* Data *)

\* Response bodies the endpoint may answer with (gaws_test.go handlers).
OKBody == <<"OK">>
NotJSONBody == <<"I am not JSON!">>
NotFoundDoc ==
    <<"{", "__type", "NotFound", "message", "Could not find something", "}">>
ThrottlingDoc ==
    <<"{", "__type", "Throttling", "message", "You have been throttled", "}">>
EmptyDoc == <<"{", "}">>

Bodies == {OKBody, NotJSONBody, NotFoundDoc, ThrottlingDoc, EmptyDoc}

\* Status codes around the two thresholds of the code, 400 and 500.
Statuses == {200, 399, 400, 404, 500, 501}

Responses == [status : Statuses, body : Bodies]

NoResp == [status |-> 0, body |-> <<>>]

\* Request bodies: none (Stream.Delete) and a JSON payload (Stream.PutRecord).
PutRecordPayload == <<"{", "StreamName", "foo", "}">>
ReqBodies == {<<>>, PutRecordPayload}

\* The headers the Kinesis operations set before handing the request over.
CallerHeaders == {"X-Amz-Target", "Content-Type"}

\* The headers awsauth.Sign injects.
SignatureHeaders == {"Authorization", "X-Amz-Date"}

\* Error values.  kind "nil" is Go's nil error.
NilError == [kind |-> "nil", Type |-> "", Message |-> ""]
AWSError(t, m) == [kind |-> "AWSError", Type |-> t, Message |-> m]
TransportError == [kind |-> "transport", Type |-> "", Message |-> ""]
RedirectError == [kind |-> "redirect", Type |-> "", Message |-> ""]
ReadError == [kind |-> "read", Type |-> "", Message |-> ""]
SyntaxError == [kind |-> "json", Type |-> "", Message |-> ""]

exceededRetriesError ==
    AWSError("GawsExceededMaxRetries",
             "The maximum number of retries for this request was exceeded.")

NoResult == [returned |-> FALSE, body |-> <<>>, err |-> NilError]

\* Result documents of the Kinesis API, one per operation that decodes.
DescriptionDoc == <<"{", "StreamDescription", "foo", "}">>
IteratorDoc == <<"{", "ShardIterator", "AAAA", "}">>
RecordsDoc == <<"{", "Records", "r1", "}">>

\* The Kinesis operations that call SendAWSRequest.
Operations == {"PutRecord", "Delete", "Describe", "GetRecords", "GetShardIterator"}

\* The body an operation gives its request: Delete passes nil, the others
\* the JSON encoding of their request structure.
RequestBody(o) == IF o = "Delete" THEN <<>> ELSE PutRecordPayload

\* What an operation returned: its value ("" is the zero value), its error,
\* and whether it ran json.Unmarshal on the body SendAWSRequest returned.
NoOutcome == [returned |-> FALSE, value |-> "", err |-> NilError, decoded |-> FALSE]
Outcome(v, e, d) == [returned |-> TRUE, value |-> v, err |-> e, decoded |-> d]
Return(b, e) == [returned |-> TRUE, body |-> b, err |-> e]

----------------------------------------------------------------------------
(* Pure helpers *)

RECURSIVE Pow2(_)
Pow2(n) == IF n <= 0 THEN 1 ELSE 2 * Pow2(n - 1)

\* The value of key k in the token list of a JSON object, "" when absent.
RECURSIVE Field(_, _, _)
Field(b, k, i) ==
    IF i + 1 > Len(b) - 1 THEN ""
    ELSE IF b[i] = k THEN b[i + 1]
    ELSE Field(b, k, i + 2)

\* json.Unmarshal(body, &error): fails unless the body is one JSON object;
\* a key that is absent leaves the field at its zero value.
Unmarshal(b) ==
    IF Len(b) >= 2 /\ b[1] = "{" /\ b[Len(b)] = "}" /\ (Len(b) - 2) % 2 = 0
    THEN [err |-> NilError,
          error |-> AWSError(Field(b, "__type", 2), Field(b, "message", 2))]
    ELSE [err |-> SyntaxError, error |-> AWSError("", "")]

\* json.Unmarshal(resp, &result) in a Kinesis operation: fails unless the body
\* is one JSON object; the field named k is taken when present, and a key
\* that is absent leaves it at its zero value.
UnmarshalResult(b, k) ==
    IF Len(b) >= 2 /\ b[1] = "{" /\ b[Len(b)] = "}" /\ (Len(b) - 2) % 2 = 0
    THEN [err |-> NilError, value |-> Field(b, k, 2)]
    ELSE [err |-> SyntaxError, value |-> ""]

\* Variant of LoopCond: the loop stops when try equals the bound.
LoopCondNotEqual(t, max) == t # max

\* Variant of LoopCond: the bound included, "try <= MaxTries".
LoopCondInclusive(t, max) == t <= max

\* for try := 1; try < MaxTries; try++
LoopCond(t, max) == t < max

\* if resp.StatusCode < 400
IsSuccess(status) == status < 400

\* Variant of IsPermanent: the two tests joined by "or".
IsPermanentEither(e, status) == e.Type # "Throttling" \/ status <= 500

\* Variant of IsPermanent: the status bound written as "below 500".
IsPermanentBelow500(e, status) == e.Type # "Throttling" /\ status < 500

\* if error.Type != "Throttling" && resp.StatusCode <= 500
IsPermanent(e, status) == e.Type # "Throttling" /\ status <= 500

\* Variant of SleepDuration: the exponent counted from zero.
SleepDurationFromZero(t) == 100 * Pow2(t - 1)

\* time.Duration(100 * math.Pow(2.0, float64(try))) * time.Millisecond
SleepDuration(t) == 100 * Pow2(t)

\* What the transport reads from the request's body reader: the bytes that
\* have not been read yet.
Remaining(r) == SubSeq(r.data, r.pos + 1, Len(r.data))

Transmit(r) == [headers |-> r.headers, body |-> Remaining(r)]

\* The request after client.Do read its body to the end.
Consumed(r) == [r EXCEPT !.pos = Len(r.data)]

Calls == DOMAIN pc

\* What no step of SendAWSRequest writes: the package variable, the
\* endpoint's behaviour, the environment's credentials, and the variables
\* of the function that called it.
env == <<MaxTries, endpoint, credentials, op, out>>

----------------------------------------------------------------------------
(* Initial state: each call has just been made with a request built by a   *)
(* Kinesis operation.                                                      *)

InitCall(S) ==
    /\ pc = [c \in S |-> "start"]
    /\ req \in [S -> [headers : {CallerHeaders}, data : ReqBodies, pos : {0}]]
    /\ try = [c \in S |-> 0]
    /\ resp = [c \in S |-> NoResp]
    /\ err = [c \in S |-> NilError]
    /\ lastBody = [c \in S |-> <<>>]
    /\ result = [c \in S |-> NoResult]
    /\ signed = [c \in S |-> 0]
    /\ sent = [c \in S |-> <<>>]
    /\ received = [c \in S |-> <<>>]
    /\ waits = [c \in S |-> <<>>]
    /\ out = [c \in S |-> NoOutcome]

\* One call of SendAWSRequest, made by any caller.
Init ==
    /\ MaxTries \in 0..MaxMaxTries
    /\ endpoint = Responses
    /\ credentials \in {"valid", "absent"}
    /\ op = [c \in {1} |-> "SendAWSRequest"]
    /\ InitCall({1})

\* Two calls in progress at once, against an endpoint that answers with a
\* success, a throttling error, a client error or an undecodable error.
ConcResponses ==
    { [status |-> 200, body |-> OKBody],
      [status |-> 400, body |-> ThrottlingDoc],
      [status |-> 404, body |-> NotFoundDoc],
      [status |-> 404, body |-> NotJSONBody] }

InitConc ==
    /\ MaxTries \in 0..MaxConcTries
    /\ endpoint = ConcResponses
    /\ credentials = "valid"
    /\ op = [c \in {1, 2} |-> "SendAWSRequest"]
    /\ InitCall({1, 2})

\* What a Kinesis endpoint may answer with: the three result documents, a
\* success that is not JSON, an empty JSON object, and the error answers,
\* one of them not JSON.
KinesisResponses ==
    { [status |-> 200, body |-> DescriptionDoc],
      [status |-> 200, body |-> IteratorDoc],
      [status |-> 200, body |-> RecordsDoc],
      [status |-> 200, body |-> OKBody],
      [status |-> 200, body |-> EmptyDoc],
      [status |-> 400, body |-> ThrottlingDoc],
      [status |-> 404, body |-> NotFoundDoc],
      [status |-> 404, body |-> NotJSONBody] }

\* One Kinesis operation has built its request (http.NewRequest succeeded)
\* and calls SendAWSRequest with it.
InitKinesis ==
    /\ MaxTries \in 0..MaxKinesisTries
    /\ endpoint = KinesisResponses
    /\ credentials = "valid"
    /\ op \in [{1} -> Operations]
    /\ InitCall({1})
    /\ \A c \in {1} : req[c].data = RequestBody(op[c])

----------------------------------------------------------------------------
(* Actions *)

\* gaws.go:35-39  awsauth.Sign(req); client; lastBody; try := 1
\* Sign reads the body to hash it and puts a fresh one-shot reader in place.
\* The value Sign returns is dropped and Sign reports no error: the step is
\* the same whether or not the environment holds credentials.
Sign(c) ==
    /\ pc[c] = "start"
    /\ req' = [req EXCEPT ![c] = [headers |-> @.headers \cup SignatureHeaders,
                                  data |-> @.data, pos |-> 0]]
    /\ signed' = [signed EXCEPT ![c] = @ + 1]
    /\ try' = [try EXCEPT ![c] = 1]
    /\ pc' = [pc EXCEPT ![c] = "loop"]
    /\ UNCHANGED <<env, resp, err, lastBody, result, sent, received, waits>>

\* gaws.go:41-46 with resp == nil: client.Do fails without a response, and
\* the defer statement of line 42 evaluates resp.Body on the nil response:
\* a nil pointer dereference, before the err check of line 44 is reached.
DoTransportError(c) ==
    /\ pc[c] = "loop"
    /\ LoopCond(try[c], MaxTries)
    /\ sent' = [sent EXCEPT ![c] = Append(@, Transmit(req[c]))]
    /\ req' = [req EXCEPT ![c] = Consumed(@)]
    /\ resp' = [resp EXCEPT ![c] = NoResp]
    /\ err' = [err EXCEPT ![c] = TransportError]
    /\ pc' = [pc EXCEPT ![c] = "panic"]
    /\ UNCHANGED <<env, try, lastBody, result, signed, received, waits>>

\* gaws.go:41-46 with resp != nil: client.Do returns a response together
\* with an error (the redirect policy gave up); line 45 returns.
DoRedirectError(c) ==
    /\ pc[c] = "loop"
    /\ LoopCond(try[c], MaxTries)
    /\ \E r \in endpoint :
         resp' = [resp EXCEPT ![c] = [status |-> 302, body |-> r.body]]
    /\ sent' = [sent EXCEPT ![c] = Append(@, Transmit(req[c]))]
    /\ req' = [req EXCEPT ![c] = Consumed(@)]
    /\ err' = [err EXCEPT ![c] = RedirectError]
    /\ result' = [result EXCEPT ![c] = Return(<<>>, RedirectError)]
    /\ pc' = [pc EXCEPT ![c] = "done"]
    /\ UNCHANGED <<env, try, lastBody, signed, received, waits>>

\* gaws.go:41-52: client.Do returns a response, ioutil.ReadAll fails after
\* k tokens of its body; line 51 returns what was read and the error.
DoReadError(c) ==
    /\ pc[c] = "loop"
    /\ LoopCond(try[c], MaxTries)
    /\ \E r \in endpoint : \E k \in 0..(Len(r.body) - 1) :
         /\ resp' = [resp EXCEPT ![c] = r]
         /\ result' = [result EXCEPT ![c] =
                          Return(SubSeq(r.body, 1, k), ReadError)]
    /\ sent' = [sent EXCEPT ![c] = Append(@, Transmit(req[c]))]
    /\ req' = [req EXCEPT ![c] = Consumed(@)]
    /\ err' = [err EXCEPT ![c] = NilError]
    /\ pc' = [pc EXCEPT ![c] = "done"]
    /\ UNCHANGED <<env, try, lastBody, signed, received, waits>>

\* gaws.go:41-52: client.Do returns a response and its body is read in full.
DoResponse(c) ==
    /\ pc[c] = "loop"
    /\ LoopCond(try[c], MaxTries)
    /\ \E r \in endpoint :
         /\ resp' = [resp EXCEPT ![c] = r]
         /\ received' = [received EXCEPT ![c] = Append(@, r)]
    /\ sent' = [sent EXCEPT ![c] = Append(@, Transmit(req[c]))]
    /\ req' = [req EXCEPT ![c] = Consumed(@)]
    /\ err' = [err EXCEPT ![c] = NilError]
    /\ pc' = [pc EXCEPT ![c] = "classify"]
    /\ UNCHANGED <<env, try, lastBody, result, signed, waits>>

\* Variant of ReturnSuccess: hands back lastBody instead of body.
ReturnSuccessLastBody(c) ==
    /\ pc[c] = "classify"
    /\ IsSuccess(resp[c].status)
    /\ result' = [result EXCEPT ![c] = Return(lastBody[c], NilError)]
    /\ pc' = [pc EXCEPT ![c] = "done"]
    /\ UNCHANGED <<env, req, try, resp, err, lastBody, signed, sent,
                   received, waits>>

\* gaws.go:54-56
ReturnSuccess(c) ==
    /\ pc[c] = "classify"
    /\ IsSuccess(resp[c].status)
    /\ result' = [result EXCEPT ![c] = Return(resp[c].body, NilError)]
    /\ pc' = [pc EXCEPT ![c] = "done"]
    /\ UNCHANGED <<env, req, try, resp, err, lastBody, signed, sent,
                   received, waits>>

\* Variant of ReturnDecodeError: an undecodable error body is retried.
ReturnDecodeErrorRetry(c) ==
    /\ pc[c] = "classify"
    /\ ~IsSuccess(resp[c].status)
    /\ Unmarshal(resp[c].body).err # NilError
    /\ lastBody' = [lastBody EXCEPT ![c] = resp[c].body]
    /\ waits' = [waits EXCEPT ![c] = Append(@, SleepDuration(try[c]))]
    /\ try' = [try EXCEPT ![c] = @ + 1]
    /\ pc' = [pc EXCEPT ![c] = "loop"]
    /\ UNCHANGED <<env, req, resp, err, result, signed, sent, received>>

\* gaws.go:60-65
ReturnDecodeError(c) ==
    /\ pc[c] = "classify"
    /\ ~IsSuccess(resp[c].status)
    /\ Unmarshal(resp[c].body).err # NilError
    /\ result' = [result EXCEPT ![c] =
                     Return(resp[c].body, Unmarshal(resp[c].body).err)]
    /\ pc' = [pc EXCEPT ![c] = "done"]
    /\ UNCHANGED <<env, req, try, resp, err, lastBody, signed, sent,
                   received, waits>>

\* Variant of ReturnServiceError: the error comes with an empty body.
ReturnServiceErrorNoBody(c) ==
    /\ pc[c] = "classify"
    /\ ~IsSuccess(resp[c].status)
    /\ Unmarshal(resp[c].body).err = NilError
    /\ IsPermanent(Unmarshal(resp[c].body).error, resp[c].status)
    /\ result' = [result EXCEPT ![c] =
                     Return(<<>>, Unmarshal(resp[c].body).error)]
    /\ pc' = [pc EXCEPT ![c] = "done"]
    /\ UNCHANGED <<env, req, try, resp, err, lastBody, signed, sent,
                   received, waits>>

\* Variant of ReturnServiceError: the error comes with lastBody.
ReturnServiceErrorLastBody(c) ==
    /\ pc[c] = "classify"
    /\ ~IsSuccess(resp[c].status)
    /\ Unmarshal(resp[c].body).err = NilError
    /\ IsPermanent(Unmarshal(resp[c].body).error, resp[c].status)
    /\ result' = [result EXCEPT ![c] =
                     Return(lastBody[c], Unmarshal(resp[c].body).error)]
    /\ pc' = [pc EXCEPT ![c] = "done"]
    /\ UNCHANGED <<env, req, try, resp, err, lastBody, signed, sent,
                   received, waits>>

\* gaws.go:67-71
ReturnServiceError(c) ==
    /\ pc[c] = "classify"
    /\ ~IsSuccess(resp[c].status)
    /\ Unmarshal(resp[c].body).err = NilError
    /\ IsPermanent(Unmarshal(resp[c].body).error, resp[c].status)
    /\ result' = [result EXCEPT ![c] =
                     Return(resp[c].body, Unmarshal(resp[c].body).error)]
    /\ pc' = [pc EXCEPT ![c] = "done"]
    /\ UNCHANGED <<env, req, try, resp, err, lastBody, signed, sent,
                   received, waits>>

\* Variant of Backoff: the request is signed again before the next attempt.
BackoffResign(c) ==
    /\ pc[c] = "classify"
    /\ ~IsSuccess(resp[c].status)
    /\ Unmarshal(resp[c].body).err = NilError
    /\ ~IsPermanent(Unmarshal(resp[c].body).error, resp[c].status)
    /\ lastBody' = [lastBody EXCEPT ![c] = resp[c].body]
    /\ waits' = [waits EXCEPT ![c] = Append(@, SleepDuration(try[c]))]
    /\ try' = [try EXCEPT ![c] = @ + 1]
    /\ signed' = [signed EXCEPT ![c] = @ + 1]
    /\ req' = [req EXCEPT ![c] = [@ EXCEPT !.pos = 0]]
    /\ pc' = [pc EXCEPT ![c] = "loop"]
    /\ UNCHANGED <<env, resp, err, result, sent, received>>

\* Variant of Backoff: the attempt counter is one counter for all calls.
BackoffSharedTry(c) ==
    /\ pc[c] = "classify"
    /\ ~IsSuccess(resp[c].status)
    /\ Unmarshal(resp[c].body).err = NilError
    /\ ~IsPermanent(Unmarshal(resp[c].body).error, resp[c].status)
    /\ lastBody' = [lastBody EXCEPT ![c] = resp[c].body]
    /\ waits' = [waits EXCEPT ![c] = Append(@, SleepDuration(try[c]))]
    /\ try' = [d \in Calls |-> try[d] + 1]
    /\ pc' = [pc EXCEPT ![c] = "loop"]
    /\ UNCHANGED <<env, req, resp, err, result, signed, sent, received>>

\* Variant of Backoff: only the body of the first retryable response is kept.
BackoffKeepFirstBody(c) ==
    /\ pc[c] = "classify"
    /\ ~IsSuccess(resp[c].status)
    /\ Unmarshal(resp[c].body).err = NilError
    /\ ~IsPermanent(Unmarshal(resp[c].body).error, resp[c].status)
    /\ lastBody' = [lastBody EXCEPT ![c] = IF @ = <<>> THEN resp[c].body ELSE @]
    /\ waits' = [waits EXCEPT ![c] = Append(@, SleepDuration(try[c]))]
    /\ try' = [try EXCEPT ![c] = @ + 1]
    /\ pc' = [pc EXCEPT ![c] = "loop"]
    /\ UNCHANGED <<env, req, resp, err, result, signed, sent, received>>

\* gaws.go:73-79 and the try++ of line 39: remember the body, sleep, count.
Backoff(c) ==
    /\ pc[c] = "classify"
    /\ ~IsSuccess(resp[c].status)
    /\ Unmarshal(resp[c].body).err = NilError
    /\ ~IsPermanent(Unmarshal(resp[c].body).error, resp[c].status)
    /\ lastBody' = [lastBody EXCEPT ![c] = resp[c].body]
    /\ waits' = [waits EXCEPT ![c] = Append(@, SleepDuration(try[c]))]
    /\ try' = [try EXCEPT ![c] = @ + 1]
    /\ pc' = [pc EXCEPT ![c] = "loop"]
    /\ UNCHANGED <<env, req, resp, err, result, signed, sent, received>>

\* Variant of ReturnExhausted: reports the provider error seen last.
ReturnExhaustedLastError(c) ==
    /\ pc[c] = "loop"
    /\ ~LoopCond(try[c], MaxTries)
    /\ result' = [result EXCEPT ![c] =
                     Return(lastBody[c], Unmarshal(lastBody[c]).error)]
    /\ pc' = [pc EXCEPT ![c] = "done"]
    /\ UNCHANGED <<env, req, try, resp, err, lastBody, signed, sent,
                   received, waits>>

\* gaws.go:39 and 81: the loop condition fails.
ReturnExhausted(c) ==
    /\ pc[c] = "loop"
    /\ ~LoopCond(try[c], MaxTries)
    /\ result' = [result EXCEPT ![c] =
                     Return(lastBody[c], exceededRetriesError)]
    /\ pc' = [pc EXCEPT ![c] = "done"]
    /\ UNCHANGED <<env, req, try, resp, err, lastBody, signed, sent,
                   received, waits>>

----------------------------------------------------------------------------
(* The Kinesis operations, from the return of SendAWSRequest onwards.      *)
(* A panic inside SendAWSRequest unwinds through the operation: it returns  *)
(* nothing.                                                                 *)

Returned(c, o) ==
    /\ op[c] = o
    /\ pc[c] = "done"
    /\ ~out[c].returned

\* The tail shared by the operations that decode: the error check, the
\* json.Unmarshal of the body into the result, and the three returns.
DecodeInto(c, k) ==
    IF result[c].err # NilError
    THEN Outcome("", result[c].err, FALSE)
    ELSE Outcome(UnmarshalResult(result[c].body, k).value,
                 UnmarshalResult(result[c].body, k).err, TRUE)

\* stream.go:28-30  _, err = gaws.SendAWSRequest(req); return err
PutRecord(c) ==
    /\ Returned(c, "PutRecord")
    /\ out' = [out EXCEPT ![c] = Outcome("", result[c].err, FALSE)]
    /\ UNCHANGED <<MaxTries, endpoint, credentials, op, pc, req, try, resp, err,
                   lastBody, result, signed, sent, received, waits>>

\* stream.go:42-44  _, err = gaws.SendAWSRequest(req); return err
Delete(c) ==
    /\ Returned(c, "Delete")
    /\ out' = [out EXCEPT ![c] = Outcome("", result[c].err, FALSE)]
    /\ UNCHANGED <<MaxTries, endpoint, credentials, op, pc, req, try, resp, err,
                   lastBody, result, signed, sent, received, waits>>

\* Variant of Describe: the body is decoded whatever SendAWSRequest
\* reported, and the decoding decides the error.
DescribeDecodeAlways(c) ==
    /\ Returned(c, "Describe")
    /\ out' = [out EXCEPT ![c] =
                  Outcome(UnmarshalResult(result[c].body, "StreamDescription").value,
                          UnmarshalResult(result[c].body, "StreamDescription").err,
                          TRUE)]
    /\ UNCHANGED <<MaxTries, endpoint, credentials, op, pc, req, try, resp, err,
                   lastBody, result, signed, sent, received, waits>>

\* stream.go:84-93
Describe(c) ==
    /\ Returned(c, "Describe")
    /\ out' = [out EXCEPT ![c] = DecodeInto(c, "StreamDescription")]
    /\ UNCHANGED <<MaxTries, endpoint, credentials, op, pc, req, try, resp, err,
                   lastBody, result, signed, sent, received, waits>>

\* stream.go:138-145: the result is still the zero value when the decoding
\* fails on a body that is not JSON.
GetRecords(c) ==
    /\ Returned(c, "GetRecords")
    /\ out' = [out EXCEPT ![c] = DecodeInto(c, "Records")]
    /\ UNCHANGED <<MaxTries, endpoint, credentials, op, pc, req, try, resp, err,
                   lastBody, result, signed, sent, received, waits>>

\* part_002:64-73
GetShardIterator(c) ==
    /\ Returned(c, "GetShardIterator")
    /\ out' = [out EXCEPT ![c] = DecodeInto(c, "ShardIterator")]
    /\ UNCHANGED <<MaxTries, endpoint, credentials, op, pc, req, try, resp, err,
                   lastBody, result, signed, sent, received, waits>>

Next ==
    \/ \E c \in Calls : Sign(c)
    \/ \E c \in Calls : DoTransportError(c)
    \/ \E c \in Calls : DoRedirectError(c)
    \/ \E c \in Calls : DoReadError(c)
    \/ \E c \in Calls : DoResponse(c)
    \/ \E c \in Calls : ReturnSuccess(c)
    \/ \E c \in Calls : ReturnDecodeError(c)
    \/ \E c \in Calls : ReturnServiceError(c)
    \/ \E c \in Calls : Backoff(c)
    \/ \E c \in Calls : ReturnExhausted(c)

Spec == Init /\ [][Next]_vars

SpecConc == InitConc /\ [][Next]_vars

\* A call made by a Kinesis operation, and the operation's return.
NextKinesis ==
    \/ Next
    \/ \E c \in Calls : PutRecord(c)
    \/ \E c \in Calls : Delete(c)
    \/ \E c \in Calls : Describe(c)
    \/ \E c \in Calls : GetRecords(c)
    \/ \E c \in Calls : GetShardIterator(c)

SpecKinesis == InitKinesis /\ [][NextKinesis]_vars

\* The goroutine of a call is scheduled and every transport call returns:
\* a call that can take a step takes it.
SpecFair == Spec /\ WF_vars(Next)

----------------------------------------------------------------------------
(* Observations used by the properties *)

Sends(c) == Len(sent[c])
Sleeps(c) == Len(waits[c])
Done(c) == pc[c] = "done"

\* The response obtained last, when there is one.
Last(c) == received[c][Len(received[c])]

\* The call ended at line 81: the loop condition failed.
Exhausted(c) == Done(c) /\ try[c] >= MaxTries

Decodes(b) == Unmarshal(b).err = NilError
Kind(b) == Unmarshal(b).error.Type

\* A response of status 400..500 that decodes to a kind other than Throttling.
ClientError(r) ==
    /\ r.status >= 400
    /\ r.status <= 500
    /\ Decodes(r.body)
    /\ Kind(r.body) # "Throttling"

\* After the response obtained last, the call has neither slept nor sent.
NothingAfterLast(c) ==
    /\ pc[c] \in {"classify", "done"}
    /\ Sends(c) = Len(received[c])
    /\ Sleeps(c) = Len(received[c]) - 1

----------------------------------------------------------------------------
(* Properties *)

\* C1 (as claimed): a call that ends with retries exhausted after retryable
\* responses has made MaxTries send attempts.
C1_SendsReachMaxTries ==
    \A c \in Calls :
        (Exhausted(c) /\ received[c] # <<>>) => Sends(c) = MaxTries

\* C2 (as claimed): with budget left, a decodable response of status >= 500
\* is never the call's outcome: its decoded error is not returned.
C2_ServerErrorsRetried ==
    \A c \in Calls :
        ( /\ Done(c)
          /\ received[c] # <<>>
          /\ Last(c).status >= 500
          /\ Decodes(Last(c).body)
          /\ try[c] + 1 < MaxTries )
        => result[c].err # Unmarshal(Last(c).body).error

C4_TransportErrorReturned ==
    \A c \in Calls :
        err[c] = TransportError
        => /\ Done(c)
           /\ result[c].returned
           /\ result[c].err = TransportError

\* C5: a response of status < 400, on whichever attempt, ends the call with
\* that response's body and a nil error, and nothing is sent or slept after
\* it; when it is the first response there was one send and no sleep.
C5_SuccessReturnsBody ==
    \A c \in Calls :
        /\ (received[c] # <<>> /\ Last(c).status < 400)
           => /\ NothingAfterLast(c)
              /\ Done(c) => result[c] = Return(Last(c).body, NilError)
        /\ (received[c] # <<>> /\ received[c][1].status < 400)
           => Sends(c) = 1 /\ Sleeps(c) = 0

C5_Witness ==
    \E c \in Calls :
        /\ Done(c)
        /\ Len(received[c]) = 2
        /\ Last(c) = [status |-> 200, body |-> OKBody]
        /\ result[c] = Return(OKBody, NilError)

\* C6: a response of status >= 400 whose body does not decode ends the call
\* with a non-nil decode error, with no sleep and no send after it, whatever
\* budget is left.
C6_DecodeErrorReturned ==
    \A c \in Calls :
        (received[c] # <<>> /\ Last(c).status >= 400 /\ ~Decodes(Last(c).body))
        => /\ NothingAfterLast(c)
           /\ Done(c) =>
                /\ result[c].returned
                /\ result[c].err.kind = "json"
                /\ result[c].err # NilError

C6_Witness ==
    \E c \in Calls :
        /\ Done(c)
        /\ received[c] # <<>>
        /\ Last(c) = [status |-> 501, body |-> NotJSONBody]
        /\ try[c] + 1 < MaxTries
        /\ result[c].err = SyntaxError

\* C7 (as claimed): every attempt of a call transmits the same headers and
\* the same body as the first attempt.
C7_SameRequestEveryAttempt ==
    \A c \in Calls :
        \A i \in 1..Len(sent[c]) : sent[c][i] = sent[c][1]

\* C8: the request is signed exactly once per call, before the first send
\* attempt: nothing is sent unsigned, and no signing follows a send.
C8_SignedOnceBeforeFirstSend ==
    \A c \in Calls :
        /\ signed[c] = (IF pc[c] = "start" THEN 0 ELSE 1)
        /\ pc[c] = "start" => Sends(c) = 0
        /\ \A i \in 1..Len(sent[c]) : SignatureHeaders \subseteq sent[c][i].headers

C8_Witness ==
    \E c \in Calls : Sends(c) >= 3 /\ Sleeps(c) >= 2 /\ signed[c] = 1

\* C9: a call that ends because the loop ran out of tries returns the fixed
\* sentinel error, never a provider error seen during the call.
C9_ExhaustionIsSentinel ==
    \A c \in Calls :
        Exhausted(c)
        => /\ result[c].returned
           /\ result[c].err.kind = "AWSError"
           /\ result[c].err.Type = "GawsExceededMaxRetries"
           /\ result[c].err.Message =
                "The maximum number of retries for this request was exceeded."
           /\ result[c].err.Type # "Throttling"

C9_Witness ==
    \E c \in Calls :
        /\ Exhausted(c)
        /\ Len(received[c]) >= 2
        /\ Kind(received[c][1].body) = "NotFound"
        /\ Kind(Last(c).body) = "Throttling"
        /\ result[c].err.Type = "GawsExceededMaxRetries"

\* C10 (as claimed): a sleep happens only while the attempt counter is below
\* the maximum, and every sleep is followed by another send: a call that
\* has ended has sent more often than it has slept.
C10_SleepFollowedBySend ==
    \A c \in Calls :
        /\ Sleeps(c) > 0 => Sleeps(c) < MaxTries
        /\ (Done(c) /\ Sleeps(c) > 0) => Sleeps(c) < Sends(c)

\* The sum of the elements of a sequence of numbers.
RECURSIVE Sum(_)
Sum(q) == IF q = <<>> THEN 0 ELSE q[1] + Sum(Tail(q))

\* 100 x 2^1 + ... + 100 x 2^n
RECURSIVE BackoffTotal(_)
BackoffTotal(n) == IF n <= 0 THEN 0 ELSE 100 * 2^n + BackoffTotal(n - 1)

\* A response of status >= 400 that decodes to the kind Throttling.
Throttled(r) ==
    /\ r.status >= 400
    /\ Decodes(r.body)
    /\ Kind(r.body) = "Throttling"

\* C11: the n-th backoff wait of a call is 100 ms x 2^n: the first is
\* 200 ms, more than the 100 ms unit, and each later one is twice the one
\* before it.
C11_WaitIsBaseTimesPowerOfTwo ==
    \A c \in Calls :
        \A n \in 1..Len(waits[c]) :
            /\ waits[c][n] = 100 * 2^n
            /\ n = 1 => waits[c][n] = 200 /\ waits[c][n] > 100
            /\ n > 1 => /\ waits[c][n] = 2 * waits[c][n - 1]
                        /\ waits[c][n] > waits[c][n - 1]

C11_Witness ==
    \E c \in Calls : Len(waits[c]) >= 3 /\ SubSeq(waits[c], 1, 3) = <<200, 400, 800>>

\* C12: a call that ends with retries exhausted has slept, in total, the sum
\* of 100 ms x 2^k for k = 1 .. MaxTries-1: 3000 ms for the default MaxTries.
C12_TotalSleepWhenExhausted ==
    \A c \in Calls :
        Exhausted(c)
        => /\ Sum(waits[c]) = BackoffTotal(MaxTries - 1)
           /\ MaxTries = DefaultMaxTries => Sum(waits[c]) = 3000

C12_Witness ==
    \E c \in Calls :
        /\ Exhausted(c)
        /\ MaxTries = DefaultMaxTries
        /\ Len(received[c]) = 4
        /\ \A i \in 1..Len(received[c]) :
             received[c][i] = [status |-> 400, body |-> ThrottlingDoc]
        /\ Sum(waits[c]) = 3000

\* C13: a response of status >= 400 with the decoded kind Throttling is
\* never the call's outcome: the call backs off after it, and it ends
\* without a further send only when the loop has run out of tries.
C13_ThrottlingRetried ==
    \A c \in Calls :
        (received[c] # <<>> /\ Throttled(Last(c)) /\ pc[c] # "classify")
        => /\ Sleeps(c) = Len(received[c])
           /\ Done(c) =>
                /\ result[c].err.Type # "Throttling"
                /\ Sends(c) = Len(received[c]) => Exhausted(c)

C13_Witness ==
    \E c \in Calls :
        /\ Len(received[c]) = 3
        /\ received[c][1] = [status |-> 400, body |-> ThrottlingDoc]
        /\ received[c][2] = [status |-> 501, body |-> ThrottlingDoc]
        /\ Sleeps(c) = 2

\* Everything call c owns.
Local(c) ==
    <<pc[c], req[c], try[c], resp[c], err[c], lastBody[c], result[c],
      signed[c], sent[c], received[c], waits[c]>>

\* A step of call c.
Step(c) ==
    \/ Sign(c)
    \/ DoTransportError(c)
    \/ DoRedirectError(c)
    \/ DoReadError(c)
    \/ DoResponse(c)
    \/ ReturnSuccess(c)
    \/ ReturnDecodeError(c)
    \/ ReturnServiceError(c)
    \/ Backoff(c)
    \/ ReturnExhausted(c)

Ended(c) == pc[c] \in {"done", "panic"}

\* A step is the step of one call and leaves what the other calls own, and
\* the package variable, as they were.
OwnStateOnly ==
    \E c \in Calls :
        /\ \A d \in Calls \ {c} : Local(d)' = Local(d)
        /\ env' = env

\* Two calls given the same request and the same answers stand at the same
\* point with the same counters, sleeps, transmissions and outcome.
SameAnswersSameRun ==
    \A c, d \in Calls :
        ( /\ req[c].data = req[d].data
          /\ received[c] = received[d]
          /\ resp[c] = resp[d]
          /\ err[c] = err[d]
          /\ pc[c] = pc[d] )
        => /\ try[c] = try[d]
           /\ waits[c] = waits[d]
           /\ sent[c] = sent[d]
           /\ lastBody[c] = lastBody[d]
           /\ result[c].returned = result[d].returned
           /\ result[c].err = result[d].err
           /\ result[c].err # ReadError => result[c].body = result[d].body

\* A call that has not ended can take its next step wherever the others are.
NeverBlocked == \A c \in Calls : ~Ended(c) => ENABLED Step(c)

\* C14: concurrent calls share no mutable state: every step changes only
\* the state of the call that takes it, calls facing the same answers run
\* the same whatever the interleaving, and no call waits for another.
C14_CallsShareNothing ==
    /\ [][OwnStateOnly]_vars
    /\ [](SameAnswersSameRun /\ NeverBlocked)

\* Of two calls in progress at once, one has ended with retries exhausted
\* after two backoffs and the other with a success on its first attempt.
C14_Witness ==
    /\ Cardinality(Calls) = 2
    /\ \E c, d \in Calls :
         /\ c # d
         /\ Exhausted(c)
         /\ Sleeps(c) = 2
         /\ Done(d)
         /\ Sends(d) = 1
         /\ result[d] = Return(OKBody, NilError)

\* A response after which the loop goes on: a decoded error that is of kind
\* Throttling or has a status above 500.
Retryable(r) ==
    /\ r.status >= 400
    /\ Decodes(r.body)
    /\ (Kind(r.body) = "Throttling" \/ r.status > 500)

\* The error the code returns for a response that ends the loop.
ErrorOf(r) ==
    IF r.status < 400 THEN NilError
    ELSE IF ~Decodes(r.body) THEN SyntaxError
    ELSE AWSError(Field(r.body, "__type", 2), Field(r.body, "message", 2))

\* C15 (as claimed): a call that has ended has handed its caller an outcome
\* (success, permanent failure or retries exhausted), and once it has, it
\* neither sends nor sleeps again and the outcome stays what it is.
C15_ExactlyOneOutcome ==
    /\ [](\A c \in Calls : Ended(c) => (Done(c) /\ result[c].returned))
    /\ [][\A c \in Calls :
             result[c].returned
             => /\ result'[c] = result[c]
                /\ sent'[c] = sent[c]
                /\ waits'[c] = waits[c]]_vars

C17_SigningFailureSurfaced ==
    \A c \in Calls :
        credentials = "absent"
        => /\ Sends(c) = 0
           /\ Sleeps(c) = 0
           /\ Ended(c)
              => /\ result[c].returned
                 /\ result[c].err.kind = "configuration"

\* C18: every call ends, after at most MaxTries send attempts and at most
\* MaxTries sleeps; unless client.Do failed without a response, it ends
\* with an outcome handed to its caller.
C18_Terminates ==
    /\ [](\A c \in Calls : Sends(c) <= MaxTries /\ Sleeps(c) <= MaxTries)
    /\ [](\A c \in Calls :
             (Ended(c) /\ err[c] # TransportError)
             => (Done(c) /\ result[c].returned))
    /\ <>(\A c \in Calls : Ended(c))

C18_Witness ==
    \E c \in Calls :
        /\ Exhausted(c)
        /\ MaxTries = DefaultMaxTries
        /\ Sends(c) = 4
        /\ \A i \in 1..Len(received[c]) : Retryable(received[c][i])

\* C19: every response before the last was retryable, and a call that ends
\* on a response that is not retryable returns that response's body and
\* that response's error (nil below 400, the decode error, or the decoded
\* AWSError): nothing of an earlier attempt.
C19_FirstNonRetryableDecides ==
    \A c \in Calls :
        received[c] # <<>>
        => /\ \A i \in 1..(Len(received[c]) - 1) : Retryable(received[c][i])
           /\ (Done(c) /\ ~Retryable(Last(c)))
              => /\ result[c].body = Last(c).body
                 /\ result[c].err = ErrorOf(Last(c))

C19_Witness ==
    \E c \in Calls :
        /\ Done(c)
        /\ Len(received[c]) = 3
        /\ received[c][1] = [status |-> 400, body |-> ThrottlingDoc]
        /\ received[c][2] = [status |-> 501, body |-> EmptyDoc]
        /\ received[c][3] = [status |-> 404, body |-> NotFoundDoc]
        /\ result[c] =
              Return(NotFoundDoc,
                     AWSError("NotFound", "Could not find something"))

\* C20 (as claimed): however a call ends, it returns, and the error it
\* returns is nil exactly when the response it received last had a status
\* below 400.
C20_NilErrorIffSuccess ==
    \A c \in Calls :
        Ended(c)
        => /\ result[c].returned
           /\ (result[c].err = NilError)
              <=> (received[c] # <<>> /\ Last(c).status < 400)

C22_ExhaustedBodyIsLastRetryable ==
    \A c \in Calls :
        (Exhausted(c) /\ Sends(c) >= 1)
        => /\ result[c].err = exceededRetriesError
           /\ received[c] # <<>>
           /\ Len(received[c]) = Sends(c)
           /\ \A i \in 1..Len(received[c]) : Retryable(received[c][i])
           /\ result[c].body = Last(c).body

\* Exhausted after two retryable responses with different bodies: the body
\* returned is the second one.
C22_Witness ==
    \E c \in Calls :
        /\ Exhausted(c)
        /\ Len(received[c]) = 2
        /\ received[c][1] = [status |-> 400, body |-> ThrottlingDoc]
        /\ received[c][2] = [status |-> 501, body |-> NotFoundDoc]
        /\ result[c] = Return(NotFoundDoc, exceededRetriesError)

\* The operations that decode the body into a result, and the key each reads.
ResultKey(o) ==
    IF o = "Describe" THEN "StreamDescription"
    ELSE IF o = "GetRecords" THEN "Records"
    ELSE IF o = "GetShardIterator" THEN "ShardIterator"
    ELSE ""

Decoding(o) == ResultKey(o) # ""

\* C23: a Kinesis operation returns only after SendAWSRequest returned;
\* when SendAWSRequest returned an error, the operation returns that very
\* error, a zero value, and has not decoded the body; PutRecord and Delete
\* never decode; Describe, GetRecords and GetShardIterator decode the body
\* exactly when SendAWSRequest succeeded, and then return the decoding error
\* with a zero value when the success body is not JSON, and the decoded
\* field with a nil error when it is.
C23_DispatcherErrorPropagated ==
    \A c \in Calls :
        out[c].returned
        => /\ op[c] \in Operations
           /\ Done(c)
           /\ result[c].returned
           /\ result[c].err # NilError
              => /\ out[c].err = result[c].err
                 /\ ~out[c].decoded
                 /\ out[c].value = ""
           /\ out[c].decoded <=> (Decoding(op[c]) /\ result[c].err = NilError)
           /\ ~Decoding(op[c]) => out[c].err = result[c].err
           /\ (out[c].decoded /\ ~Decodes(result[c].body))
              => (out[c].err = SyntaxError /\ out[c].value = "")
           /\ (out[c].decoded /\ Decodes(result[c].body))
              => /\ out[c].err = NilError
                 /\ out[c].value = Field(result[c].body, ResultKey(op[c]), 2)

\* Describe against an endpoint that answers 404 with a NotFound document:
\* the error SendAWSRequest built is the one Describe returns, undecoded.
C23_Witness ==
    \E c \in Calls :
        /\ op[c] = "Describe"
        /\ out[c].returned
        /\ result[c] = Return(NotFoundDoc, AWSError("NotFound", "Could not find something"))
        /\ out[c] = Outcome("", AWSError("NotFound", "Could not find something"), FALSE)

====
